---- MODULE Spec2Model ----
(***************************************************************************)
(* A model of OmniInt (src/OmniInt.h): an arbitrary-precision signed       *)
(* integer kept as a little-endian vector of decimal digits (val) and a    *)
(* sign flag (pos).  The member functions are operators on records         *)
(* [val, pos]; the actions apply them to two program objects a and b.      *)
(***************************************************************************)
EXTENDS Integers, Sequences, FiniteSets, TLC

VARIABLES
    a,      \* the receiver object
    b,      \* a second object, the operand
    ret,    \* the OmniInt the last call returned
    out,    \* the string the last toString returned
    st,     \* how the last call ended
    op,     \* the last call
    old,    \* the left operand / receiver as it was before the last call
    arg,    \* the right operand of the last call
    str,    \* the string handed to the last call
    frame   \* the locals of the call that is running, the native value returned

vars == <<a, b, ret, out, st, op, old, arg, str, frame>>

(***************************************************************************)
(* Bounds of the model.                                                    *)
(***************************************************************************)
\* Results stored into the objects a and b stay within -MaxMag..MaxMag.
MaxMag == 12
\* Frames of operator+= / operator-= the stack holds before it overflows.
MaxCallDepth == 6
\* Operands of the one-shot arithmetic specification lie in -MaxOperand..MaxOperand.
MaxOperand == 105
\* Longest string handed to the string constructor in SpecString.
MaxStrLen == 3

(***************************************************************************)
(* Characters are their ASCII codes, as the comparisons s[i] < '0' and the *)
(* conversion s[i] - '0' read them.                                        *)
(***************************************************************************)
CharPlus == 43
CharMinus == 45
CharZero == 48
CharNine == 57

(***************************************************************************)
(* Outcomes of a call: a normal return carrying a value, or an exception / *)
(* a call that never returns (st names which).                             *)
(***************************************************************************)
Ok(v) == [st |-> "ok", v |-> v]
Fail(e) == [st |-> e]

\* A call whose operand is the temporary r another call returned: the operand
\* is computed once, and an exception of that call ends the expression.
Then(r, F(_)) ==
    CHOOSE y \in {IF v.st # "ok" THEN v ELSE F(v.v) : v \in {r}} : TRUE

Max(m, n) == IF m >= n THEN m ELSE n

\* A vector of n zero digits: std::vector<int>(n, 0), assign(n, 0).
RECURSIVE Zeros(_)
Zeros(n) == IF n <= 0 THEN <<>> ELSE Append(Zeros(n - 1), 0)

\* std::vector<int>::resize(n, 0) when n >= size().
Resize(v, n) == v \o Zeros(n - Len(v))

\* OmniInt::OmniInt() noexcept
OmniIntDefault == [val |-> <<0>>, pos |-> TRUE]

\* The test (val.size() == 1 && val[0] == 0) the code repeats.
IsZeroDigits(x) == Len(x.val) = 1 /\ x.val[1] = 0

\* trim() with the loop left out.
trim_skipped(v) == v

\* OmniInt::trim()
RECURSIVE trim(_)
trim(v) ==
    IF Len(v) > 1 /\ v[Len(v)] = 0
    THEN trim(SubSeq(v, 1, Len(v) - 1))
    ELSE v

\* OmniInt::abs() const
abs(x) == [val |-> x.val, pos |-> TRUE]

(***************************************************************************)
(* long long, 64 bits wide in the build, is kept at LLBits bits here, in    *)
(* two's complement; unsigned long long holds values modulo 2^LLBits.      *)
(***************************************************************************)
LLBits == 12
RECURSIVE Pow(_, _)
Pow(base, e) == IF e = 0 THEN 1 ELSE base * Pow(base, e - 1)
ULLMod == Pow(2, LLBits)
LLONG_MAX == Pow(2, LLBits - 1) - 1
LLONG_MIN == -Pow(2, LLBits - 1)

\* (n > 0) ? n : -static_cast<unsigned long long>(n)
Magnitude(n) == IF n > 0 THEN n ELSE (ULLMod - (n % ULLMod)) % ULLMod

\* while (magnitude > 0) { val.push_back(magnitude % 10); magnitude /= 10; }
RECURSIVE PushDigits(_, _)
PushDigits(v, magnitude) ==
    IF magnitude > 0
    THEN PushDigits(Append(v, magnitude % 10), magnitude \div 10)
    ELSE v

\* OmniInt::OmniInt(long long n), and operator=(long long n), which clears
\* val and then runs the same statements.
OmniIntFromLL(n) ==
    IF n = 0
    THEN [val |-> <<0>>, pos |-> TRUE]
    ELSE [val |-> PushDigits(<<>>, Magnitude(n)), pos |-> (n > 0)]

\* OmniInt::compare(const OmniInt &) const: the digit loop, from the most
\* significant digit (index i) down.
RECURSIVE compareDigits(_, _, _, _)
compareDigits(v, o, i, sign_multiplier) ==
    IF i < 1 THEN 0
    ELSE IF v[i] < o[i] THEN -1 * sign_multiplier
    ELSE IF v[i] > o[i] THEN 1 * sign_multiplier
    ELSE compareDigits(v, o, i - 1, sign_multiplier)

\* compare with the magnitudes ordered as if both operands were positive.
compare_signIgnored(x, other) ==
    IF x.pos # other.pos THEN (IF x.pos THEN 1 ELSE -1)
    ELSE IF IsZeroDigits(x) /\ IsZeroDigits(other) THEN 0
    ELSE IF Len(x.val) < Len(other.val) THEN -1
    ELSE IF Len(x.val) > Len(other.val) THEN 1
    ELSE compareDigits(x.val, other.val, Len(x.val), 1)

compare(x, other) ==
    IF x.pos # other.pos THEN (IF x.pos THEN 1 ELSE -1)
    ELSE IF IsZeroDigits(x) /\ IsZeroDigits(other) THEN 0
    ELSE LET sign_multiplier == IF x.pos THEN 1 ELSE -1 IN
         IF Len(x.val) < Len(other.val) THEN -1 * sign_multiplier
         ELSE IF Len(x.val) > Len(other.val) THEN 1 * sign_multiplier
         ELSE compareDigits(x.val, other.val, Len(x.val), sign_multiplier)

OpLess(x, other) == compare(x, other) = -1
OpGreater(x, other) == compare(x, other) = 1
OpLessEq(x, other) == compare(x, other) <= 0
OpGreaterEq(x, other) == compare(x, other) >= 0
OpEq(x, other) == compare(x, other) = 0
OpNotEq(x, other) == compare(x, other) # 0

\* OmniInt::operator-() const
OpNeg(x) == IF IsZeroDigits(x) THEN x ELSE [val |-> x.val, pos |-> ~x.pos]

\* operator+=, equal signs: the carry loop over the resized val, and the
\* push_back of a leftover carry.
RECURSIVE AddLoop(_, _, _, _)
AddLoop(v, o, i, carry) ==
    IF i > Len(v)
    THEN (IF carry # 0 THEN Append(v, carry) ELSE v)
    ELSE LET sum == v[i] + carry + (IF i <= Len(o) THEN o[i] ELSE 0) IN
         AddLoop([v EXCEPT ![i] = sum % 10], o, i + 1, sum \div 10)

AddDigits(v, o) == AddLoop(Resize(v, Max(Len(v), Len(o))), o, 1, 0)

\* operator-=, equal signs and |*this| >= |other|: the borrow loop.
RECURSIVE SubLoop(_, _, _, _)
SubLoop(v, o, i, borrow) ==
    IF i > Len(v) THEN v
    ELSE LET diff == v[i] - borrow - (IF i <= Len(o) THEN o[i] ELSE 0) IN
         IF diff < 0
         THEN SubLoop([v EXCEPT ![i] = diff + 10], o, i + 1, 1)
         ELSE SubLoop([v EXCEPT ![i] = diff], o, i + 1, 0)

SubDigits(v, o) == SubLoop(v, o, 1, 0)

\* The normalisation of zero's sign left out.
ZeroIsPositive_skipped(x) == x

\* if (val.size() == 1 && val[0] == 0) pos = true;
ZeroIsPositive(x) == IF IsZeroDigits(x) THEN [val |-> x.val, pos |-> TRUE] ELSE x

(***************************************************************************)
(* operator+= and operator-= call each other when the signs differ.  depth *)
(* counts the frames of the two on the stack: a chain that outgrows the    *)
(* stack never returns.                                                    *)
(***************************************************************************)
RECURSIVE OpPlusAssign(_, _, _)
RECURSIVE OpMinusAssign(_, _, _)

OpPlusAssign(self, other, depth) ==
    IF depth >= MaxCallDepth THEN Fail("no_return")
    ELSE IF self.pos = other.pos
    THEN Ok([val |-> AddDigits(self.val, other.val), pos |-> self.pos])
    ELSE OpMinusAssign(self, OpNeg(other), depth + 1)

OpMinusAssign(self, other, depth) ==
    IF depth >= MaxCallDepth THEN Fail("no_return")
    ELSE IF self.pos # other.pos
    THEN OpPlusAssign(self, OpNeg(other), depth + 1)
    ELSE IF OpLess(abs(self), abs(other))
    THEN \* *this = -(other - *this): operator- copies other and runs -= on it
         LET r == OpMinusAssign(other, self, depth + 1) IN
         IF r.st # "ok" THEN r ELSE Ok(OpNeg(r.v))
    ELSE Ok(ZeroIsPositive([val |-> trim(SubDigits(self.val, other.val)),
                            pos |-> self.pos]))

\* operator+ and operator-: a copy of *this, then the in-place operator.
OpPlus(x, other) == OpPlusAssign(x, other, 0)
OpMinus(x, other) == OpMinusAssign(x, other, 0)

\* The inner loop of operator*= stopping at the operand's last digit, a carry
\* still pending.
RECURSIVE MulInner_carryDropped(_, _, _, _, _, _)
MulInner_carryDropped(res, v, o, i, j, carry) ==
    IF j <= Len(o)
    THEN LET current == res[i + j - 1] + carry + v[i] * o[j] IN
         MulInner_carryDropped([res EXCEPT ![i + j - 1] = current % 10], v, o,
                               i, j + 1, current \div 10)
    ELSE res

\* operator*=: the inner loop over j (runs on while a carry is left) and the
\* outer loop over i.  Indices are 1-based: result_val[i + j] is res[i + j - 1].
RECURSIVE MulInner(_, _, _, _, _, _)
MulInner(res, v, o, i, j, carry) ==
    IF j <= Len(o) \/ carry # 0
    THEN LET current == res[i + j - 1] + carry
                        + (IF j <= Len(o) THEN v[i] * o[j] ELSE 0) IN
         MulInner([res EXCEPT ![i + j - 1] = current % 10], v, o, i, j + 1,
                  current \div 10)
    ELSE res

RECURSIVE MulOuter(_, _, _, _)
MulOuter(res, v, o, i) ==
    IF i > Len(v) THEN res
    ELSE MulOuter(MulInner(res, v, o, i, 1, 0), v, o, i + 1)

MulDigits(v, o) == MulOuter(Zeros(Len(v) + Len(o)), v, o, 1)

\* OmniInt::operator*=, and operator* (a copy, then *=).
OpTimesAssign(self, other) ==
    IF IsZeroDigits(self) \/ IsZeroDigits(other)
    THEN OmniIntFromLL(0)
    ELSE [val |-> trim(MulDigits(self.val, other.val)),
          pos |-> (self.pos = other.pos)]

OpTimes(x, other) == OpTimesAssign(x, other)

\* The digit loop leaving off while the remainder still equals the divisor.
RECURSIVE DivDigit_stopsAtEqual(_, _, _)
DivDigit_stopsAtEqual(current_remainder, abs_divisor, digit) ==
    IF OpGreater(current_remainder, abs_divisor)
    THEN DivDigit_stopsAtEqual(OpMinusAssign(current_remainder, abs_divisor, 0).v,
                               abs_divisor, digit + 1)
    ELSE [rem |-> current_remainder, digit |-> digit]

\* divide_and_remainder: while (current_remainder >= abs_divisor)
\*                         { current_remainder -= abs_divisor; digit++; }
RECURSIVE DivDigit(_, _, _)
DivDigit(current_remainder, abs_divisor, digit) ==
    IF OpGreaterEq(current_remainder, abs_divisor)
    THEN DivDigit(OpMinusAssign(current_remainder, abs_divisor, 0).v,
                  abs_divisor, digit + 1)
    ELSE [rem |-> current_remainder, digit |-> digit]

\* current_remainder = current_remainder * 10 + val[i];
BringDown(current_remainder, digit) ==
    OpPlus(OpTimes(current_remainder, OmniIntFromLL(10)), OmniIntFromLL(digit)).v

\* divide_and_remainder: the sweep over the dividend's digits, from the most
\* significant (index i) down.
RECURSIVE DivSweep(_, _, _, _, _)
DivSweep(qval, current_remainder, val, abs_divisor, i) ==
    IF i < 1 THEN qval
    ELSE LET brought == BringDown(current_remainder, val[i])
             step == DivDigit(brought, abs_divisor, 0)
         IN DivSweep([qval EXCEPT ![i] = step.digit], step.rem, val,
                     abs_divisor, i - 1)

\* The quotient given the dividend's sign.
QuotientOf_dividendSign(qval, self, divisor) ==
    ZeroIsPositive([val |-> trim(qval), pos |-> self.pos])

\* quotient.trim(); quotient.pos = (pos == divisor.pos); zero is positive.
QuotientOf(qval, self, divisor) ==
    ZeroIsPositive([val |-> trim(qval), pos |-> (self.pos = divisor.pos)])

\* divide_and_remainder past its zero-divisor check: the short circuit for
\* |dividend| < |divisor|, the sweep, the quotient's sign and the remainder.
DivideNonZero(self, divisor) ==
    IF OpLess(abs(self), abs(divisor))
    THEN Ok([first |-> OmniIntFromLL(0), second |-> self])
    ELSE LET abs_divisor == abs(divisor)
             qval == DivSweep(Zeros(Len(self.val)), OmniIntDefault,
                              self.val, abs_divisor, Len(self.val))
             quotient == QuotientOf(qval, self, divisor)
             remainder == OpMinus(self, OpTimes(quotient, divisor))
         IN IF remainder.st # "ok" THEN remainder
            ELSE Ok([first |-> quotient, second |-> remainder.v])

\* A zero dividend short-circuited ahead of the zero-divisor check.
divide_and_remainder_zeroDividendFirst(self, divisor) ==
    IF IsZeroDigits(self) THEN Ok([first |-> OmniIntFromLL(0), second |-> self])
    ELSE IF IsZeroDigits(divisor) THEN Fail("runtime_error")
    ELSE DivideNonZero(self, divisor)

\* OmniInt::divide_and_remainder(const OmniInt &divisor) const
divide_and_remainder(self, divisor) ==
    IF IsZeroDigits(divisor) THEN Fail("runtime_error")
    ELSE DivideNonZero(self, divisor)

\* operator/ and operator%
OpDiv(x, other) ==
    LET r == divide_and_remainder(x, other) IN
    IF r.st # "ok" THEN r ELSE Ok(r.v.first)

OpMod(x, other) ==
    LET r == divide_and_remainder(x, other) IN
    IF r.st # "ok" THEN r ELSE Ok(r.v.second)

\* The character test without its upper bound (s[i] > '9').
RECURSIVE ParseDigits_noUpperBound(_, _, _, _)
ParseDigits_noUpperBound(s, i, first, v) ==
    IF i < first THEN Ok(v)
    ELSE IF s[i] < CharZero THEN Fail("invalid_argument")
    ELSE ParseDigits_noUpperBound(s, i - 1, first, Append(v, s[i] - CharZero))

\* OmniInt::OmniInt(const std::string &s): the loop from the last character
\* (index i) down to the first one after the sign (index first).
RECURSIVE ParseDigits(_, _, _, _)
ParseDigits(s, i, first, v) ==
    IF i < first THEN Ok(v)
    ELSE IF s[i] < CharZero \/ s[i] > CharNine THEN Fail("invalid_argument")
    ELSE ParseDigits(s, i - 1, first, Append(v, s[i] - CharZero))

OmniIntFromString(s) ==
    IF Len(s) = 0 \/ (Len(s) = 1 /\ (s[1] = CharPlus \/ s[1] = CharMinus))
    THEN Fail("invalid_argument")
    ELSE LET signPos == ~(s[1] = CharMinus)
             start == IF s[1] = CharMinus \/ s[1] = CharPlus THEN 1 ELSE 0
             digits == ParseDigits(s, Len(s), start + 1, <<>>)
         IN IF digits.st # "ok" THEN digits
            ELSE Ok(ZeroIsPositive([val |-> trim(digits.v), pos |-> signPos]))

\* ss << val[i]: an int written in decimal.
RECURSIVE DecimalChars(_)
DecimalChars(n) ==
    IF n < 10 THEN <<CharZero + n>>
    ELSE DecimalChars(n \div 10) \o <<CharZero + (n % 10)>>

\* The digits written in storage order, least significant first.
RECURSIVE WriteDigits_lsbFirst(_, _)
WriteDigits_lsbFirst(v, i) ==
    IF i < 1 THEN <<>> ELSE WriteDigits_lsbFirst(v, i - 1) \o DecimalChars(v[i])

\* toString: for (int i = val.size() - 1; i >= 0; --i) ss << val[i];
RECURSIVE WriteDigits(_, _)
WriteDigits(v, i) ==
    IF i < 1 THEN <<>> ELSE DecimalChars(v[i]) \o WriteDigits(v, i - 1)

\* OmniInt::toString() const
toString(x) ==
    IF Len(x.val) = 0 \/ IsZeroDigits(x) THEN <<CharZero>>
    ELSE (IF ~x.pos THEN <<CharMinus>> ELSE <<>>) \o WriteDigits(x.val, Len(x.val))

\* OmniInt::digitCount() const
digitCount(x) == IF IsZeroDigits(x) THEN 1 ELSE Len(x.val)

(***************************************************************************)
(* The programs: calls on the objects a and b.                             *)
(***************************************************************************)
\* A call chain that outgrows the stack: the process is killed, or, where the
\* compiler turns the calls into jumps, loops for ever.
EndOf(r) == IF r.st = "no_return" THEN {"segfault", "hang"} ELSE {r.st}

Alive == st \notin {"segfault", "hang"}

\* What ret holds after a call that returned no OmniInt.
NoValue == [none |-> TRUE]

\* What frame holds while no call with locals of its own is running.
NoFrame == [none |-> TRUE]

\* A call on left operand lhs with right operand rhs and string s that ended
\* as r: newA is the receiver a after a normal return, newRet the value
\* returned.  An exception leaves a as it was and returns nothing.
Call(name, lhs, rhs, s, r, newA, newRet) ==
    /\ op' = name
    /\ old' = lhs
    /\ arg' = rhs
    /\ str' = s
    /\ st' \in EndOf(r)
    /\ a' = IF r.st = "ok" THEN newA ELSE a
    /\ ret' = IF r.st = "ok" THEN newRet ELSE NoValue
    /\ out' = <<>>
    /\ UNCHANGED b

\* Where frame keeps a tally of the increments and decrements run (SpecIncDec),
\* a call of ++ or -- that returned adds to it.
Tally(name, r, f) ==
    IF "incs" \notin DOMAIN f \/ r.st # "ok" THEN f
    ELSE IF name \in {"pre_inc", "post_inc"} THEN [f EXCEPT !.incs = @ + 1]
    ELSE IF name \in {"pre_dec", "post_dec"} THEN [f EXCEPT !.decs = @ + 1]
    ELSE f

Effect(name, lhs, rhs, s, r, newA, newRet) ==
    /\ Call(name, lhs, rhs, s, r, newA, newRet)
    /\ frame' = Tally(name, r, frame)

\* A const member call or a constructor call that returns a new value.
Returns(name, lhs, rhs, r) ==
    Effect(name, lhs, rhs, <<>>, r, a, IF r.st = "ok" THEN r.v ELSE NoValue)

\* An in-place operator of the receiver a, which returns *this.
InPlace(name, rhs, r) ==
    LET v == IF r.st = "ok" THEN r.v ELSE a IN
    Effect(name, a, rhs, <<>>, r, v, v)

\* The integer an OmniInt stands for.
Value(x) ==
    LET RECURSIVE MagOf(_, _)
        MagOf(v, i) == IF i > Len(v) THEN 0 ELSE v[i] + 10 * MagOf(v, i + 1)
    IN IF x.pos THEN MagOf(x.val, 1) ELSE -MagOf(x.val, 1)

\* The bound on what the objects of Spec store.
InRange(x) == -MaxMag <= Value(x) /\ Value(x) <= MaxMag

\* The long long values and the strings Spec hands to constructors and
\* assignments.
LLInputs == {-10, -1, 0, 1, 3}

\* "-0", "00", "+7", "-12", "", "-", "1x"
StrInputs ==
    {<<45, 48>>, <<48, 48>>, <<43, 55>>, <<45, 49, 50>>, <<>>, <<45>>, <<49, 120>>}

Objs == {a, b}

Init ==
    /\ a = OmniIntDefault
    /\ b = OmniIntDefault
    /\ ret = NoValue
    /\ out = <<>>
    /\ st = "ok"
    /\ op = "ctor_default"
    /\ old = OmniIntDefault
    /\ arg = OmniIntDefault
    /\ str = <<>>
    /\ frame = NoFrame

\* OmniInt x; a = x;
DefaultConstruct ==
    /\ Alive
    /\ Effect("ctor_default", a, OmniIntDefault, <<>>, Ok(OmniIntDefault),
              OmniIntDefault, OmniIntDefault)

\* a = n;
AssignLL ==
    /\ Alive
    /\ \E n \in LLInputs :
          Effect("assign_ll", a, OmniIntFromLL(n), <<>>, Ok(OmniIntFromLL(n)),
                 OmniIntFromLL(n), OmniIntFromLL(n))

\* OmniInt b(n);
ConstructB ==
    /\ Alive
    /\ \E n \in LLInputs :
          /\ b' = OmniIntFromLL(n)
          /\ op' = "ctor_ll"
          /\ st' = "ok"
          /\ old' = a
          /\ arg' = b'
          /\ str' = <<>>
          /\ ret' = NoValue
          /\ out' = <<>>
          /\ UNCHANGED <<a, frame>>

\* OmniInt(s), a temporary, for a string s of S
ConstructStringOf(S) ==
    /\ Alive
    /\ \E s \in S :
          LET r == OmniIntFromString(s) IN
          Effect("ctor_string", a, OmniIntDefault, s, r, a,
                 IF r.st = "ok" THEN r.v ELSE NoValue)

\* a = s;  (OmniInt temp(s); *this = std::move(temp);)  for a string s of S
AssignStringOf(S) ==
    /\ Alive
    /\ \E s \in S :
          LET r == OmniIntFromString(s)
              v == IF r.st = "ok" THEN r.v ELSE a
          IN Effect("assign_string", a, OmniIntDefault, s, r, v, v)

ConstructString == ConstructStringOf(StrInputs)

AssignString == AssignStringOf(StrInputs)

\* a = b;
CopyAssign ==
    /\ Alive
    /\ Effect("assign_copy", a, b, <<>>, Ok(b), b, b)

\* a = <the temporary last returned>;  the temporary is gone afterwards
MoveAssign ==
    /\ Alive
    /\ ret # NoValue
    /\ InRange(ret)
    /\ Effect("assign_move", a, ret, <<>>, Ok(ret), ret, ret)

\* The source of a move with its sign left as it was.
MovedFrom_signKept(other) == [val |-> Append(<<>>, 0), pos |-> other.pos]

\* What a move leaves of its source: other.val.clear();
\* other.val.push_back(0); other.pos = true;
MovedFrom(other) == [val |-> Append(<<>>, 0), pos |-> TRUE]

\* A move from the object b into a; moved is b's state, the value returned is
\* newRet.
MovesB(name, newA, newRet) ==
    /\ op' = name
    /\ st' = "ok"
    /\ old' = a
    /\ arg' = b
    /\ a' = newA
    /\ b' = MovedFrom(b)
    /\ ret' = newRet
    /\ str' = <<>>
    /\ out' = <<>>
    /\ UNCHANGED frame

\* OmniInt a(std::move(b));  a is a new object: val(std::move(other.val)),
\* pos(other.pos)
MoveConstruct ==
    /\ Alive
    /\ MovesB("ctor_move", [val |-> b.val, pos |-> b.pos], NoValue)

\* a = std::move(b);
MoveAssignFrom ==
    /\ Alive
    /\ MovesB("assign_move_from", [val |-> b.val, pos |-> b.pos],
              [val |-> b.val, pos |-> b.pos])

\* a = std::move(a);  this == &other: nothing is done
SelfMoveAssign ==
    /\ Alive
    /\ Effect("assign_move_self", a, a, <<>>, Ok(a), a, a)

\* -x
Negate ==
    /\ Alive
    /\ \E x \in Objs : Returns("neg", x, OmniIntDefault, Ok(OpNeg(x)))

\* x + o, x - o, x * o, x / o, x % o
Plus ==
    /\ Alive
    /\ \E x \in Objs, o \in Objs : Returns("plus", x, o, OpPlus(x, o))

Minus ==
    /\ Alive
    /\ \E x \in Objs, o \in Objs : Returns("minus", x, o, OpMinus(x, o))

Times ==
    /\ Alive
    /\ \E x \in Objs, o \in Objs : Returns("times", x, o, Ok(OpTimes(x, o)))

Div ==
    /\ Alive
    /\ \E x \in Objs, o \in Objs : Returns("div", x, o, OpDiv(x, o))

Mod ==
    /\ Alive
    /\ \E x \in Objs, o \in Objs : Returns("mod", x, o, OpMod(x, o))

\* operator/= and operator%=: return *this = *this / other; the assignment
\* runs only when the division returned.
OpDivAssign(self, other) == OpDiv(self, other)
OpModAssign(self, other) == OpMod(self, other)

\* operator++() and operator--(): *this += 1, *this -= 1
OpPreInc(self) == OpPlusAssign(self, OmniIntFromLL(1), 0)
OpPreDec(self) == OpMinusAssign(self, OmniIntFromLL(1), 0)

\* a += o, a -= o, a *= o, a /= o, a %= o  (o may be a itself)
PlusAssign ==
    /\ Alive
    /\ \E o \in Objs : InPlace("plus_assign", o, OpPlusAssign(a, o, 0))

MinusAssign ==
    /\ Alive
    /\ \E o \in Objs : InPlace("minus_assign", o, OpMinusAssign(a, o, 0))

TimesAssign ==
    /\ Alive
    /\ \E o \in Objs : InPlace("times_assign", o, Ok(OpTimesAssign(a, o)))

DivAssign ==
    /\ Alive
    /\ \E o \in Objs : InPlace("div_assign", o, OpDivAssign(a, o))

ModAssign ==
    /\ Alive
    /\ \E o \in Objs : InPlace("mod_assign", o, OpModAssign(a, o))

\* ++a, --a
PreInc ==
    /\ Alive
    /\ InPlace("pre_inc", OmniIntFromLL(1), OpPreInc(a))

PreDec ==
    /\ Alive
    /\ InPlace("pre_dec", OmniIntFromLL(1), OpPreDec(a))

\* a++, a--: OmniInt temp = *this; ++*this; return temp;
PostInc ==
    /\ Alive
    /\ LET r == OpPreInc(a) IN
       Effect("post_inc", a, OmniIntFromLL(1), <<>>, r,
              IF r.st = "ok" THEN r.v ELSE a, a)

\* a-- returning the receiver after the decrement.
PostDec_returnsUpdated ==
    /\ Alive
    /\ InPlace("post_dec", OmniIntFromLL(1), OpPreDec(a))

PostDec ==
    /\ Alive
    /\ LET r == OpPreDec(a) IN
       Effect("post_dec", a, OmniIntFromLL(1), <<>>, r,
              IF r.st = "ok" THEN r.v ELSE a, a)

\* x.toString()
CallToString ==
    /\ Alive
    /\ \E x \in Objs :
          /\ out' = toString(x)
          /\ op' = "toString"
          /\ st' = "ok"
          /\ old' = x
          /\ arg' = OmniIntDefault
          /\ str' = <<>>
          /\ ret' = NoValue
          /\ UNCHANGED <<a, b, frame>>

\* The objects stay within -MaxMag..MaxMag: a call that would store more is
\* left out.
Next ==
    \/ DefaultConstruct
    \/ AssignLL
    \/ ConstructB
    \/ ConstructString
    \/ AssignString
    \/ CopyAssign
    \/ MoveAssign
    \/ MoveConstruct
    \/ MoveAssignFrom
    \/ SelfMoveAssign
    \/ Negate
    \/ Plus
    \/ Minus
    \/ Times
    \/ Div
    \/ Mod
    \/ PlusAssign /\ InRange(a')
    \/ MinusAssign /\ InRange(a')
    \/ TimesAssign /\ InRange(a')
    \/ DivAssign
    \/ ModAssign
    \/ PreInc /\ InRange(a')
    \/ PreDec /\ InRange(a')
    \/ PostInc /\ InRange(a')
    \/ PostDec /\ InRange(a')
    \/ CallToString

Spec == Init /\ [][Next]_vars

(***************************************************************************)
(* SpecArith: one arithmetic call on operands drawn from                   *)
(* -MaxOperand..MaxOperand (a) and ArithOperands (b).                      *)
(***************************************************************************)
ArithOperands == {-100, -99, -12, -10, -9, -1, 0, 1, 2, 9, 10, 11, 99, 100}

Fresh == op = "init"

InitArith ==
    /\ a \in {OmniIntFromLL(n) : n \in -MaxOperand..MaxOperand}
    /\ b \in {OmniIntFromLL(n) : n \in ArithOperands}
    /\ ret = NoValue
    /\ out = <<>>
    /\ st = "ok"
    /\ op = "init"
    /\ old = OmniIntDefault
    /\ arg = OmniIntDefault
    /\ str = <<>>
    /\ frame = NoFrame

NextArith ==
    \/ Fresh /\ Plus
    \/ Fresh /\ Minus
    \/ Fresh /\ Times
    \/ Fresh /\ Div
    \/ Fresh /\ Mod
    \/ Fresh /\ PlusAssign
    \/ Fresh /\ MinusAssign
    \/ Fresh /\ TimesAssign
    \/ Fresh /\ DivAssign
    \/ Fresh /\ ModAssign

SpecArith == InitArith /\ [][NextArith]_vars

(***************************************************************************)
(* SpecString: one construction or assignment from a string of at most     *)
(* MaxStrLen characters of StrAlphabet, then toString of the result.       *)
(***************************************************************************)
\* '+', '-', '/', '0', '1', '9', ':'
StrAlphabet == {43, 45, 47, 48, 49, 57, 58}

Strings == UNION {[1..n -> StrAlphabet] : n \in 0..MaxStrLen}

InitString ==
    /\ a \in {OmniIntFromLL(n) : n \in {-7, 0, 12}}
    /\ b = OmniIntDefault
    /\ ret = NoValue
    /\ out = <<>>
    /\ st = "ok"
    /\ op = "init"
    /\ old = OmniIntDefault
    /\ arg = OmniIntDefault
    /\ str = <<>>
    /\ frame = NoFrame

\* OmniInt(s).toString(), (a = s).toString(): toString of the value the
\* string call just returned.
ParsedToString ==
    /\ op \in {"ctor_string", "assign_string"}
    /\ st = "ok"
    /\ out' = toString(ret)
    /\ op' = "parsed_toString"
    /\ UNCHANGED <<a, b, ret, st, old, arg, str, frame>>

NextString ==
    \/ Fresh /\ ConstructStringOf(Strings)
    \/ Fresh /\ AssignStringOf(Strings)
    \/ ParsedToString

SpecString == InitString /\ [][NextString]_vars

(***************************************************************************)
(* SpecSqrt: one call of sqrt(n), the free function of OmniInt.h, on an n  *)
(* of -MaxSqrtNeg..MaxSqrtArg, run statement by statement: frame holds the *)
(* locals x and last_x and the place (pc) the call has reached; a and old  *)
(* hold the argument n.                                                    *)
(***************************************************************************)
MaxSqrtArg == 1030
MaxSqrtNeg == 3

\* std::string(n, c)
RECURSIVE CharString(_, _)
CharString(n, c) == IF n <= 0 THEN <<>> ELSE Append(CharString(n - 1, c), c)

\* The seed with the exponent rounded down, digits / 2.
SqrtSeed_exponentFloor(n) ==
    LET digits == digitCount(n)
        guess_exponent == digits \div 2
        initial_guess_str ==
            [CharString(guess_exponent + 1, CharZero) EXCEPT ![1] = CharZero + 1]
    IN OmniIntFromString(initial_guess_str)

\* The seed of the iteration: '1' followed by (digits + 1) / 2 zeros, parsed.
SqrtSeed(n) ==
    LET digits == digitCount(n)
        guess_exponent == (digits + 1) \div 2
        initial_guess_str ==
            [CharString(guess_exponent + 1, CharZero) EXCEPT ![1] = CharZero + 1]
    IN OmniIntFromString(initial_guess_str)

\* The step without its halving: x = x + n / x;
NewtonStep_noHalving(n, x) ==
    Then(OpDiv(n, x), LAMBDA q : OpPlus(x, q))

\* x = (x + n / x) / 2;
NewtonStep(n, x) ==
    Then(OpDiv(n, x), LAMBDA q :
    Then(OpPlus(x, q), LAMBDA s : OpDiv(s, OmniIntFromLL(2))))

\* x = last_x; if (x * x > n) { x -= 1; } return x;
SqrtResult(n, last_x) ==
    IF OpGreater(OpTimes(last_x, last_x), n)
    THEN OpMinusAssign(last_x, OmniIntFromLL(1), 0)
    ELSE Ok(last_x)

InitSqrt ==
    /\ a = OmniIntDefault
    /\ b = OmniIntDefault
    /\ ret = NoValue
    /\ out = <<>>
    /\ st = "ok"
    /\ op = "init"
    /\ old = OmniIntDefault
    /\ arg = OmniIntDefault
    /\ str = <<>>
    /\ frame = NoFrame

\* A statement of sqrt ended as r: an exception leaves the function.
SqrtThrows(r) ==
    /\ op' = "sqrt"
    /\ st' \in EndOf(r)
    /\ ret' = NoValue
    /\ frame' = NoFrame

\* sqrt(n) up to the do-while: the two early exits and the seed.
SqrtEnterOn(n) ==
    /\ a' = n
    /\ old' = n
    /\ arg' = OmniIntDefault
    /\ str' = <<>>
    /\ out' = <<>>
    /\ UNCHANGED b
    /\ IF OpLess(n, OmniIntFromLL(0))
       THEN SqrtThrows(Fail("domain_error"))
       ELSE IF OpEq(n, OmniIntFromLL(0))
       THEN /\ op' = "sqrt"
            /\ st' = "ok"
            /\ ret' = OmniIntFromLL(0)
            /\ frame' = NoFrame
       ELSE LET seed == SqrtSeed(n) IN
            IF seed.st # "ok" THEN SqrtThrows(seed)
            ELSE /\ op' = "sqrt_enter"
                 /\ st' = "ok"
                 /\ ret' = NoValue
                 /\ frame' = [pc |-> "do", x |-> seed.v, last_x |-> OmniIntDefault]

\* OmniInt a(n); sqrt(a);
SqrtEnter ==
    /\ Fresh
    /\ \E n \in -MaxSqrtNeg..MaxSqrtArg : SqrtEnterOn(OmniIntFromLL(n))

InSqrt == op \in {"sqrt_enter", "sqrt_iterate"}

\* do { last_x = x; x = (x + n / x) / 2; } while (x < last_x);  one round
SqrtIterate ==
    /\ InSqrt
    /\ frame.pc = "do"
    /\ UNCHANGED <<a, b, old, arg, str, out>>
    /\ LET r == NewtonStep(old, frame.x) IN
       IF r.st # "ok" THEN SqrtThrows(r)
       ELSE /\ op' = "sqrt_iterate"
            /\ st' = "ok"
            /\ ret' = NoValue
            /\ frame' = [pc |-> IF OpLess(r.v, frame.x) THEN "do" ELSE "done",
                         x |-> r.v, last_x |-> frame.x]

\* The statements after the loop, and the return.
SqrtReturn ==
    /\ InSqrt
    /\ frame.pc = "done"
    /\ UNCHANGED <<a, b, old, arg, str, out>>
    /\ LET r == SqrtResult(old, frame.last_x) IN
       IF r.st # "ok" THEN SqrtThrows(r)
       ELSE /\ op' = "sqrt"
            /\ st' = "ok"
            /\ ret' = r.v
            /\ frame' = [pc |-> "returned", x |-> r.v, last_x |-> frame.last_x]

NextSqrt ==
    \/ SqrtEnter
    \/ SqrtIterate
    \/ SqrtReturn

SpecSqrt == InitSqrt /\ [][NextSqrt]_vars

(***************************************************************************)
(* SpecToLL: one call of toLongLong, run statement by statement, on the    *)
(* OmniInt of every long long and on values up to ToLLMargin past either   *)
(* end of the range.  frame holds the locals result and i and the place    *)
(* (pc) the call has reached; a and old hold the receiver.                 *)
(***************************************************************************)
ToLLMargin == 12

InLL(n) == LLONG_MIN <= n /\ n <= LLONG_MAX

\* The two's-complement long long that the exact value n wraps to.
WrapLL(n) == ((n - LLONG_MIN) % ULLMod) + LLONG_MIN

\* A signed long long operation whose exact result is n.  A result out of
\* range is undefined behaviour: the build either goes on with the wrapped
\* value or traps (-ftrapv).  overflowed records that this has happened.
SignedLL(n, overflowed) ==
    IF InLL(n)
    THEN {[st |-> "ok", v |-> n, overflowed |-> overflowed]}
    ELSE {[st |-> "ok", v |-> WrapLL(n), overflowed |-> TRUE], [st |-> "trap"]}

\* result = result * 10 + val[i];
Accumulate(result, digit, overflowed) ==
    UNION {IF m.st # "ok" THEN {m} ELSE SignedLL(m.v + digit, m.overflowed) :
           m \in SignedLL(result * 10, overflowed)}

\* return pos ? result : -result;
SignedResult(pos, result, overflowed) ==
    IF pos THEN SignedLL(result, overflowed) ELSE SignedLL(-result, overflowed)

\* The range check toLongLong starts with.
OutOfLLRange(x) ==
    IF x.pos
    THEN OpGreater(x, OmniIntFromLL(LLONG_MAX))
    ELSE OpLess(x, OmniIntFromLL(LLONG_MIN))

\* The receivers: OmniInt(n) for every long long n, and, as the tests build
\* them, OmniInt(LLONG_MAX) += k and OmniInt(LLONG_MIN) -= k.
ToLLInputs ==
    {OmniIntFromLL(n) : n \in LLONG_MIN..LLONG_MAX}
    \cup {OpPlusAssign(OmniIntFromLL(LLONG_MAX), OmniIntFromLL(k), 0).v :
          k \in 1..ToLLMargin}
    \cup {OpMinusAssign(OmniIntFromLL(LLONG_MIN), OmniIntFromLL(k), 0).v :
          k \in 1..ToLLMargin}

InitToLL ==
    /\ a = OmniIntDefault
    /\ b = OmniIntDefault
    /\ ret = NoValue
    /\ out = <<>>
    /\ st = "ok"
    /\ op = "init"
    /\ old = OmniIntDefault
    /\ arg = OmniIntDefault
    /\ str = <<>>
    /\ frame = NoFrame

\* a = x; a.toLongLong() up to its loop: the range check, result = 0
ToLLEnter ==
    /\ Fresh
    /\ \E x \in ToLLInputs :
          /\ a' = x
          /\ old' = x
          /\ IF OutOfLLRange(x)
             THEN /\ op' = "toLongLong"
                  /\ st' = "overflow_error"
                  /\ frame' = [pc |-> "thrown", result |-> 0, i |-> Len(x.val),
                               overflowed |-> FALSE]
             ELSE /\ op' = "toLongLong_enter"
                  /\ st' = "ok"
                  /\ frame' = [pc |-> "for", result |-> 0, i |-> Len(x.val),
                               overflowed |-> FALSE]
    /\ UNCHANGED <<b, ret, out, arg, str>>

InToLL == op \in {"toLongLong_enter", "toLongLong_step"}

\* A signed operation of toLongLong ended as r, its result going into result.
ToLLGoesOn(r, name, pc, i) ==
    IF r.st = "ok"
    THEN /\ op' = name
         /\ st' = "ok"
         /\ frame' = [pc |-> pc, result |-> r.v, i |-> i, overflowed |-> r.overflowed]
    ELSE /\ op' = "toLongLong"
         /\ st' = r.st
         /\ frame' = [pc |-> "trapped", result |-> frame.result, i |-> frame.i,
                      overflowed |-> TRUE]

\* One round of for (int i = val.size() - 1; i >= 0; --i); i counts from
\* Len(val) down to 1 here.
ToLLStep ==
    /\ InToLL
    /\ frame.pc = "for"
    /\ frame.i >= 1
    /\ \E r \in Accumulate(frame.result, old.val[frame.i], frame.overflowed) :
          ToLLGoesOn(r, "toLongLong_step", "for", frame.i - 1)
    /\ UNCHANGED <<a, b, ret, out, old, arg, str>>

\* The loop is over: return pos ? result : -result;
ToLLReturn ==
    /\ InToLL
    /\ frame.pc = "for"
    /\ frame.i < 1
    /\ \E r \in SignedResult(old.pos, frame.result, frame.overflowed) :
          ToLLGoesOn(r, "toLongLong", "returned", frame.i)
    /\ UNCHANGED <<a, b, ret, out, old, arg, str>>

NextToLL ==
    \/ ToLLEnter
    \/ ToLLStep
    \/ ToLLReturn

SpecToLL == InitToLL /\ [][NextToLL]_vars

(***************************************************************************)
(* SpecCompare: one comparison of two of the operands of SpecArith.  frame *)
(* holds the native value (an int or a bool) the call returned.            *)
(***************************************************************************)
\* A comparison of x with o returned the native value r.
Compared(name, x, o, r) ==
    /\ op' = name
    /\ st' = "ok"
    /\ old' = x
    /\ arg' = o
    /\ frame' = [result |-> r]
    /\ UNCHANGED <<a, b, ret, out, str>>

\* x.compare(o)
CallCompare ==
    \E x \in Objs, o \in Objs : Compared("compare", x, o, compare(x, o))

\* x < o, x > o, x <= o, x >= o, x == o, x != o
Less == \E x \in Objs, o \in Objs : Compared("lt", x, o, OpLess(x, o))

Greater == \E x \in Objs, o \in Objs : Compared("gt", x, o, OpGreater(x, o))

LessEq == \E x \in Objs, o \in Objs : Compared("le", x, o, OpLessEq(x, o))

GreaterEq == \E x \in Objs, o \in Objs : Compared("ge", x, o, OpGreaterEq(x, o))

Equal == \E x \in Objs, o \in Objs : Compared("eq", x, o, OpEq(x, o))

NotEqual == \E x \in Objs, o \in Objs : Compared("ne", x, o, OpNotEq(x, o))

NextCompare ==
    \/ Fresh /\ CallCompare
    \/ Fresh /\ Less
    \/ Fresh /\ Greater
    \/ Fresh /\ LessEq
    \/ Fresh /\ GreaterEq
    \/ Fresh /\ Equal
    \/ Fresh /\ NotEqual

SpecCompare == InitArith /\ [][NextCompare]_vars

(***************************************************************************)
(* SpecIncDec: up to MaxIncDecSteps calls of ++a, a++, --a, a-- on an a    *)
(* that starts within -MaxIncDecStart..MaxIncDecStart.  frame keeps the    *)
(* start value and the numbers of increments and decrements run.           *)
(***************************************************************************)
MaxIncDecStart == 3
MaxIncDecSteps == 7

InitIncDec ==
    /\ \E n \in -MaxIncDecStart..MaxIncDecStart :
          /\ a = OmniIntFromLL(n)
          /\ frame = [start |-> n, incs |-> 0, decs |-> 0]
    /\ b = OmniIntDefault
    /\ ret = NoValue
    /\ out = <<>>
    /\ st = "ok"
    /\ op = "init"
    /\ old = OmniIntDefault
    /\ arg = OmniIntDefault
    /\ str = <<>>

MoreSteps == frame.incs + frame.decs < MaxIncDecSteps

NextIncDec ==
    \/ MoreSteps /\ PreInc
    \/ MoreSteps /\ PreDec
    \/ MoreSteps /\ PostInc
    \/ MoreSteps /\ PostDec

SpecIncDec == InitIncDec /\ [][NextIncDec]_vars

(***************************************************************************)
(* SpecGcd: one call of gcd(x, o) on operands of -MaxGcdArg..MaxGcdArg.    *)
(* OmniInt.h declares no gcd; the function is modelled as specified: the   *)
(* Euclidean iteration on the absolute values of its arguments.            *)
(***************************************************************************)
MaxGcdArg == 36

\* Replace (a, b) with (b, a mod b) until b is zero; return a.
RECURSIVE GcdLoop(_, _)
GcdLoop(x, y) ==
    IF IsZeroDigits(y) THEN Ok(x)
    ELSE Then(OpMod(x, y), LAMBDA r : GcdLoop(y, r))

\* The iteration on the arguments as they are, signs included.
gcd_signsKept(x, y) == GcdLoop(x, y)

\* gcd(a, b)
gcd(x, y) == GcdLoop(abs(x), abs(y))

InitGcd ==
    /\ a \in {OmniIntFromLL(n) : n \in -MaxGcdArg..MaxGcdArg}
    /\ b \in {OmniIntFromLL(n) : n \in -MaxGcdArg..MaxGcdArg}
    /\ ret = NoValue
    /\ out = <<>>
    /\ st = "ok"
    /\ op = "init"
    /\ old = OmniIntDefault
    /\ arg = OmniIntDefault
    /\ str = <<>>
    /\ frame = NoFrame

\* gcd(x, o)
CallGcd ==
    /\ Alive
    /\ \E x \in Objs, o \in Objs : Returns("gcd", x, o, gcd(x, o))

NextGcd == Fresh /\ CallGcd

SpecGcd == InitGcd /\ [][NextGcd]_vars

(***************************************************************************)
(* SpecDivSweep: one call of divide_and_remainder on two of the operands   *)
(* of SpecArith, its for loop run round by round.  frame holds the locals  *)
(* (i, current_remainder, the digits of quotient), what the last round     *)
(* brought down and found, and at the end the pair returned.               *)
(***************************************************************************)
\* The call returned or threw: r is its outcome, rounds the rounds run.
DivLeaves(r, rounds) ==
    /\ op' = "divide_and_remainder"
    /\ st' \in EndOf(r)
    /\ frame' = IF r.st = "ok"
                THEN [pc |-> "returned", first |-> r.v.first,
                      second |-> r.v.second, rounds |-> rounds]
                ELSE [pc |-> "thrown", rounds |-> rounds]

\* x.divide_and_remainder(o) up to its for loop: the zero-divisor check, the
\* short circuit and the locals.
DivEnter ==
    /\ Fresh
    /\ \E x \in Objs, o \in Objs :
          /\ old' = x
          /\ arg' = o
          /\ IF IsZeroDigits(o) THEN DivLeaves(Fail("runtime_error"), 0)
             ELSE IF OpLess(abs(x), abs(o))
             THEN DivLeaves(Ok([first |-> OmniIntFromLL(0), second |-> x]), 0)
             ELSE /\ op' = "divide_enter"
                  /\ st' = "ok"
                  /\ frame' = [pc |-> "for", i |-> Len(x.val),
                               current_remainder |-> OmniIntDefault,
                               qval |-> Zeros(Len(x.val)),
                               brought |-> OmniIntDefault, digit |-> 0,
                               rounds |-> 0]
    /\ UNCHANGED <<a, b, ret, out, str>>

InDivide == op \in {"divide_enter", "divide_round"}

\* One round of the for loop: bring down val[i], find the digit, store it.
DivRound ==
    /\ InDivide
    /\ frame.pc = "for"
    /\ frame.i >= 1
    /\ LET brought == BringDown(frame.current_remainder, old.val[frame.i])
           step == DivDigit(brought, abs(arg), 0)
       IN frame' = [pc |-> "for", i |-> frame.i - 1,
                    current_remainder |-> step.rem,
                    qval |-> [frame.qval EXCEPT ![frame.i] = step.digit],
                    brought |-> brought, digit |-> step.digit,
                    rounds |-> frame.rounds + 1]
    /\ op' = "divide_round"
    /\ UNCHANGED <<a, b, ret, out, st, old, arg, str>>

\* After the loop: the quotient's trim and sign, the remainder, the return.
DivReturn ==
    /\ InDivide
    /\ frame.pc = "for"
    /\ frame.i < 1
    /\ LET quotient == QuotientOf(frame.qval, old, arg) IN
       DivLeaves(Then(OpMinus(old, OpTimes(quotient, arg)),
                      LAMBDA remainder :
                          Ok([first |-> quotient, second |-> remainder])),
                 frame.rounds)
    /\ UNCHANGED <<a, b, ret, out, old, arg, str>>

NextDivSweep ==
    \/ DivEnter
    \/ DivRound
    \/ DivReturn

SpecDivSweep == InitArith /\ [][NextDivSweep]_vars

(***************************************************************************)
(* Properties.                                                             *)
(***************************************************************************)
\* Every OmniInt the program holds: the two objects and the value returned.
Held == {a, b} \cup (IF ret = NoValue THEN {} ELSE {ret})

\* C1: there is no negative zero: after any sequence of public operations,
\* every OmniInt whose magnitude is the single digit 0 has pos = TRUE.
C1_NoNegativeZero == \A x \in Held : IsZeroDigits(x) => x.pos

\* A subtraction of two equal negative values has left the receiver zero.
C1_Witness ==
    /\ op = "minus_assign" /\ st = "ok"
    /\ ~old.pos /\ ~arg.pos
    /\ IsZeroDigits(a)

\* C2: after every public operation the digit vector of the receiver and of
\* the value returned is non-empty, holds only digits 0..9, and has no
\* most-significant zero unless it is exactly the single digit 0.
CanonicalDigits(v) ==
    /\ Len(v) >= 1
    /\ \A i \in 1..Len(v) : v[i] \in 0..9
    /\ (Len(v) > 1 => v[Len(v)] # 0)

C2_CanonicalDigits == \A x \in Held : CanonicalDigits(x.val)

\* A product whose buffer of len(a) + len(b) digits had a zero to trim.
C2_Witness ==
    /\ op = "times_assign" /\ st = "ok"
    /\ ~IsZeroDigits(a)
    /\ Len(a.val) < Len(old.val) + Len(arg.val)

Abs(n) == IF n < 0 THEN -n ELSE n

\* C3: for all a and b, in every sign combination (zero on either side
\* included), a + b returns the exact sum and a - b the exact difference, and
\* a += b / a -= b leave the receiver holding that value.
C3_ExactSumAndDifference ==
    /\ op \in {"plus", "plus_assign"} =>
          st = "ok" /\ ret # NoValue /\ Value(ret) = Value(old) + Value(arg)
    /\ op \in {"minus", "minus_assign"} =>
          st = "ok" /\ ret # NoValue /\ Value(ret) = Value(old) - Value(arg)
    /\ op \in {"plus_assign", "minus_assign"} => a = ret

\* C4: for all a (positive, negative or zero), a + 0 returns a value equal to
\* a, and for all a, b: a + b == b + a.
C4_AddZeroAndCommute ==
    op = "plus" =>
        /\ st = "ok"
        /\ ret # NoValue
        /\ (Value(arg) = 0 => OpEq(ret, old))
        /\ OpPlus(arg, old).st = "ok"
        /\ OpEq(ret, OpPlus(arg, old).v)

\* (q * y) + m for the quotient q and the remainder m the operators returned.
TimesPlus(q, y, m) == OpPlus(OpTimes(q, y), m)

\* C5: for all a and b with b != 0, evaluating (a / b) * b + (a % b) with the
\* public operators returns a value equal to a.
C5_DivModIdentity ==
    (op = "div" /\ Value(arg) # 0) =>
        /\ st = "ok"
        /\ OpMod(old, arg).st = "ok"
        /\ TimesPlus(ret, arg, OpMod(old, arg).v).st = "ok"
        /\ OpEq(TimesPlus(ret, arg, OpMod(old, arg).v).v, old)

\* The integer quotient of x by y rounded toward zero.
TruncQuot(x, y) ==
    IF (x < 0) = (y < 0) THEN Abs(x) \div Abs(y) ELSE -(Abs(x) \div Abs(y))

\* C6: division truncates toward zero: for b != 0, a / b is the quotient
\* rounded toward zero, with sign = XOR of the operand signs (positive when
\* zero); a % b has |a % b| < |b| and the sign of a (positive when zero).
C6_TruncatingDivision ==
    /\ (op \in {"div", "div_assign"} /\ Value(arg) # 0) =>
          /\ st = "ok"
          /\ ret # NoValue
          /\ Value(ret) = TruncQuot(Value(old), Value(arg))
          /\ ret.pos = (IF Value(ret) = 0 THEN TRUE ELSE old.pos = arg.pos)
    /\ (op \in {"mod", "mod_assign"} /\ Value(arg) # 0) =>
          /\ st = "ok"
          /\ ret # NoValue
          /\ Value(ret) = Value(old) - TruncQuot(Value(old), Value(arg)) * Value(arg)
          /\ Abs(Value(ret)) < Abs(Value(arg))
          /\ ret.pos = (IF Value(ret) = 0 THEN TRUE ELSE old.pos)
    /\ (op \in {"div_assign", "mod_assign"} /\ Value(arg) # 0) => a = ret

\* -10 % 3 = -1
C6_Witness ==
    /\ op = "mod" /\ st = "ok"
    /\ Value(old) = -10 /\ Value(arg) = 3
    /\ Value(ret) = -1

\* C7: a * b is the exact product: positive sign when the operand signs are
\* equal and negative when they differ, a * 0 and 0 * a are canonical zero,
\* a * 1 == a, and a * b == b * a.
C7_ExactProduct ==
    op \in {"times", "times_assign"} =>
        /\ st = "ok"
        /\ ret # NoValue
        /\ Value(ret) = Value(old) * Value(arg)
        /\ (Value(ret) # 0 => ret.pos = (old.pos = arg.pos))
        /\ (Value(old) = 0 \/ Value(arg) = 0 => ret = [val |-> <<0>>, pos |-> TRUE])
        /\ (Value(arg) = 1 => OpEq(ret, old))
        /\ OpEq(ret, OpTimes(arg, old))
        /\ (op = "times_assign" => a = ret)

\* A negative times a positive with carries into a fourth digit.
C7_Witness ==
    /\ op = "times" /\ st = "ok"
    /\ ~old.pos /\ arg.pos
    /\ ~ret.pos /\ Len(ret.val) >= 4

\* The grammar [+|-] then one or more digits.
IsDigitChar(c) == c \in CharZero..CharNine
IsSignChar(c) == c \in {CharPlus, CharMinus}

ValidString(s) ==
    /\ Len(s) >= 1
    /\ LET first == IF IsSignChar(s[1]) THEN 2 ELSE 1 IN
       /\ first <= Len(s)
       /\ \A i \in first..Len(s) : IsDigitChar(s[i])

RECURSIVE StripLeadingZeros(_)
StripLeadingZeros(s) ==
    IF Len(s) > 1 /\ s[1] = CharZero THEN StripLeadingZeros(Tail(s)) ELSE s

\* The canonical form of a valid string: the '+' and the leading zeros
\* stripped, the '-' kept only for a non-zero value.
CanonicalForm(s) ==
    LET digits == StripLeadingZeros(IF IsSignChar(s[1]) THEN Tail(s) ELSE s) IN
    IF digits = <<CharZero>> THEN <<CharZero>>
    ELSE IF s[1] = CharMinus THEN <<CharMinus>> \o digits
    ELSE digits

\* C8: for every string s of the grammar, OmniInt(s).toString() is the
\* canonical form of s.
C8_StringRoundTrip ==
    (op = "parsed_toString" /\ ValidString(str)) => out = CanonicalForm(str)

\* "-01" came back as "-1"
C8_Witness ==
    /\ op = "parsed_toString"
    /\ str = <<CharMinus, CharZero, CharZero + 1>>
    /\ out = <<CharMinus, CharZero + 1>>

\* C9: construction or assignment from s fails with invalid_argument exactly
\* when s is empty, is only a sign, or has a non-digit after the optional
\* sign; a failed assignment leaves the receiver as it was.
C9_InvalidFormat ==
    op \in {"ctor_string", "assign_string"} =>
        /\ st \in {"ok", "invalid_argument"}
        /\ (st = "invalid_argument") <=> ~ValidString(str)
        /\ (st = "invalid_argument" => a = old /\ ret = NoValue)
        /\ (op = "assign_string" /\ st = "ok" => a = ret)

\* The assignment of "-1:" failed and the receiver is still -7.
C9_Witness ==
    /\ op = "assign_string" /\ st = "invalid_argument"
    /\ str = <<CharMinus, CharZero + 1, CharNine + 1>>
    /\ Value(a) = -7

\* C10: for every dividend a (zero and negative included), a / 0 and a % 0
\* raise runtime_error and return nothing, and a /= 0 and a %= 0 raise it and
\* leave the receiver with its sign and digits.
C10_DivideByZero ==
    (op \in {"div", "mod", "div_assign", "mod_assign"} /\ IsZeroDigits(arg)) =>
        /\ st = "runtime_error"
        /\ ret = NoValue
        /\ (op \in {"div_assign", "mod_assign"} => a = old)

\* a /= 0 on a negative a raised and a is unchanged.
C10_Witness ==
    /\ op = "div_assign" /\ st = "runtime_error"
    /\ ~old.pos /\ a = old
    /\ IsZeroDigits(arg)

\* The integer square root of n >= 0.
Isqrt(n) == CHOOSE r \in 0..n : r * r <= n /\ n < (r + 1) * (r + 1)

\* C11: for every n >= 0, sqrt(n) returns r >= 0 with r * r <= n < (r + 1)^2
\* (sqrt(0) = 0), and sqrt of a negative n raises domain_error.
C11_IntegerSquareRoot ==
    op = "sqrt" =>
        /\ st \in {"ok", "domain_error"}
        /\ (st = "domain_error") <=> Value(old) < 0
        /\ st = "domain_error" => ret = NoValue
        /\ st = "ok" =>
              /\ ret # NoValue
              /\ Value(ret) >= 0
              /\ Value(ret) * Value(ret) <= Value(old)
              /\ Value(old) < (Value(ret) + 1) * (Value(ret) + 1)
              /\ (Value(old) = 0 => ret = [val |-> <<0>>, pos |-> TRUE])

\* sqrt(1023) returned 31, one below the next perfect square's root.
C11_Witness ==
    /\ op = "sqrt" /\ st = "ok"
    /\ Value(old) = 1023
    /\ Value(ret) = 31

\* The seed sqrt starts from is 10^ceil(d/2) for the d digits of n, and lies
\* strictly above the root.
SeedAboveRoot ==
    op = "sqrt_enter" =>
        /\ Value(frame.x) = Pow(10, (digitCount(old) + 1) \div 2)
        /\ Value(frame.x) > Isqrt(Value(old))

\* A round of the loop entered with x above the root leaves x smaller, and not
\* below the root.
StepDescends ==
    (InSqrt /\ frame.pc = "do" /\ op' = "sqrt_iterate"
        /\ Value(frame.x) > Isqrt(Value(old))) =>
        /\ Value(frame'.x) < Value(frame.x)
        /\ Value(frame'.x) >= Isqrt(Value(old))

\* A round returns, and one that does not end the loop leaves x smaller and
\* still positive: the loop runs no more rounds than the seed counts.
RoundBounded ==
    (InSqrt /\ frame.pc = "do") =>
        /\ op' = "sqrt_iterate"
        /\ frame'.pc = "do" =>
              /\ Value(frame'.x) < Value(frame.x)
              /\ Value(frame'.x) >= 1

\* The loop is left with last_x the root.
ExitAtRoot ==
    (InSqrt /\ frame.pc = "done") => Value(frame.last_x) = Isqrt(Value(old))

\* C18: in sqrt(n) for n > 0 of d digits the seed 10^ceil(d/2) is strictly
\* greater than the true root, every Newton step taken while x is above
\* floor(sqrt(n)) gives x' < x and x' >= floor(sqrt(n)), and the do-while loop
\* terminates, with last_x = floor(sqrt(n)).
C18_NewtonDescent ==
    /\ [](SeedAboveRoot /\ ExitAtRoot)
    /\ [][StepDescends /\ RoundBounded]_vars

\* The loop has ended for n = 1000 with last_x = 31, after rounds from 100.
C18_Witness ==
    /\ op = "sqrt_iterate" /\ frame.pc = "done"
    /\ Value(old) = 1000
    /\ Value(frame.last_x) = 31
    /\ Value(frame.x) >= 31

\* C12: toLongLong raises overflow_error exactly when the value is above the
\* long long maximum or below the minimum, and for every long long n from the
\* minimum to the maximum inclusive OmniInt(n).toLongLong() returns n.
C12_ToLongLongRoundTrip ==
    op = "toLongLong" =>
        /\ (st = "overflow_error") <=> ~InLL(Value(old))
        /\ InLL(Value(old)) => (st = "ok" /\ frame.result = Value(old))

\* C20: for every value inside the long long range, minimum and maximum
\* included, neither the accumulation result = result * 10 + digit nor the
\* final negation of toLongLong overflows the signed long long.
C20_NoSignedOverflow ==
    (op \in {"toLongLong", "toLongLong_enter", "toLongLong_step"}
        /\ InLL(Value(old))) =>
        /\ st # "trap"
        /\ ~frame.overflowed

\* -1, 0 or 1 as the integer m is below, equal to or above n.
Order(m, n) == IF m < n THEN -1 ELSE IF m > n THEN 1 ELSE 0

\* Exactly one of the three holds.
ExactlyOne(p, q, r) ==
    \/ p /\ ~q /\ ~r
    \/ ~p /\ q /\ ~r
    \/ ~p /\ ~q /\ r

\* C13: for canonical a and b, compare(a, b) is -1, 0 or 1 as a is below,
\* equal to or above b in the order of the integers; exactly one of a < b,
\* a == b, a > b is true; compare(a, b) = -compare(b, a); and <=, >=, != are
\* the negations of >, <, ==.
C13_TotalOrder ==
    /\ op = "compare" =>
          /\ frame.result = Order(Value(old), Value(arg))
          /\ frame.result = -compare(arg, old)
    /\ op = "lt" =>
          /\ frame.result = (Value(old) < Value(arg))
          /\ ExactlyOne(frame.result, OpEq(old, arg), OpGreater(old, arg))
    /\ op = "eq" =>
          /\ frame.result = (Value(old) = Value(arg))
          /\ ExactlyOne(OpLess(old, arg), frame.result, OpGreater(old, arg))
    /\ op = "gt" =>
          /\ frame.result = (Value(old) > Value(arg))
          /\ ExactlyOne(OpLess(old, arg), OpEq(old, arg), frame.result)
    /\ op = "le" => frame.result = ~OpGreater(old, arg)
    /\ op = "ge" => frame.result = ~OpLess(old, arg)
    /\ op = "ne" => frame.result = ~OpEq(old, arg)

\* -100 < -99: two negatives of equal length, ordered against their digits.
C13_Witness ==
    /\ op = "lt" /\ frame.result = TRUE
    /\ Value(old) = -100 /\ Value(arg) = -99

\* C14: after a move construction or a move assignment from a distinct
\* source, the destination holds the value the source had and the source is
\* canonical zero, equal to a newly constructed OmniInt and so usable like
\* one; a move assignment of an object to itself leaves its value unchanged.
C14_MoveLeavesZero ==
    /\ op \in {"ctor_move", "assign_move_from"} =>
          /\ a = arg
          /\ b = [val |-> <<0>>, pos |-> TRUE]
          /\ b = OmniIntDefault
    /\ op = "assign_move_from" => ret = a
    /\ op = "assign_move_self" => (a = old /\ ret = a)

\* a = std::move(b) has put b's -10 into a, which held 3, and left b zero.
C14_Witness ==
    /\ op = "assign_move_from"
    /\ Value(old) = 3 /\ Value(arg) = -10
    /\ Value(a) = -10 /\ IsZeroDigits(b) /\ b.pos

\* C15: after any sequence of prefix and postfix increments and decrements
\* the receiver equals its start value plus the number of increments minus
\* the number of decrements, crossing zero in either direction included; a
\* prefix form returns the updated value and a postfix form the value before.
C15_IncDecCount ==
    /\ st = "ok"
    /\ Value(a) = frame.start + frame.incs - frame.decs
    /\ a = OmniIntFromLL(frame.start + frame.incs - frame.decs)
    /\ op \in {"pre_inc", "pre_dec"} => ret = a
    /\ op \in {"post_inc", "post_dec"} => ret = old
    /\ op \in {"pre_inc", "post_inc"} => Value(a) = Value(old) + 1
    /\ op \in {"pre_dec", "post_dec"} => Value(a) = Value(old) - 1

\* From 2, five decrements have taken a through zero to -3, and a-- has
\* returned the -2 before.
C15_Witness ==
    /\ op = "post_dec"
    /\ frame.start = 2 /\ frame.decs = 5 /\ frame.incs = 0
    /\ Value(a) = -3 /\ Value(ret) = -2

Divides(d, n) == n % d = 0

\* The greatest common divisor of m >= 0 and n >= 0, 0 when both are 0.
GreatestCommonDivisor(m, n) ==
    IF m = 0 /\ n = 0 THEN 0
    ELSE CHOOSE d \in 1..Max(m, n) :
            /\ Divides(d, m) /\ Divides(d, n)
            /\ \A e \in (d + 1)..Max(m, n) : ~(Divides(e, m) /\ Divides(e, n))

\* C16: gcd(a, b) is the greatest common divisor of |a| and |b|: it is >= 0
\* whatever the signs of a and b, gcd(0, 0) = 0, gcd(n, 0) = gcd(0, n) = |n|,
\* and gcd(g * x, g * y) = g when x and y are coprime and g > 0.
C16_Gcd ==
    op = "gcd" =>
        /\ st = "ok"
        /\ ret # NoValue
        /\ Value(ret) = GreatestCommonDivisor(Abs(Value(old)), Abs(Value(arg)))
        /\ Value(ret) >= 0 /\ ret.pos
        /\ (Value(old) = 0 /\ Value(arg) = 0) => ret = [val |-> <<0>>, pos |-> TRUE]
        /\ Value(arg) = 0 => Value(ret) = Abs(Value(old))
        /\ Value(old) = 0 => Value(ret) = Abs(Value(arg))
        /\ \A g \in 1..MaxGcdArg :
              (/\ Divides(g, Value(old)) /\ Divides(g, Value(arg))
               /\ GreatestCommonDivisor(Abs(Value(old)) \div g,
                                        Abs(Value(arg)) \div g) = 1)
              => Value(ret) = g

\* gcd(-36, 24) = 12: 12 * -3 and 12 * 2, a negative operand.
C16_Witness ==
    /\ op = "gcd" /\ st = "ok"
    /\ Value(old) = -36 /\ Value(arg) = 24
    /\ Value(ret) = 12

\* C19: in the long-division sweep of divide_and_remainder, taken when
\* |dividend| >= |divisor|, the quotient digit of every step is the largest d
\* in 0..9 with d * |divisor| <= r for the r brought down, and the partial
\* remainder after the step is >= 0 and < |divisor|; when
\* |dividend| < |divisor| the sweep is skipped and the result is quotient 0 and
\* the dividend, sign included, as remainder.
C19_DivisionSweep ==
    /\ InDivide => Abs(Value(old)) >= Abs(Value(arg))
    /\ op = "divide_round" =>
          LET r == Value(frame.brought)
              d == Abs(Value(arg))
          IN /\ frame.digit \in 0..9
             /\ frame.digit * d <= r
             /\ \A e \in 0..9 : e * d <= r => e <= frame.digit
             /\ Value(frame.current_remainder) = r - frame.digit * d
             /\ Value(frame.current_remainder) >= 0
             /\ frame.current_remainder.pos
             /\ Value(frame.current_remainder) < d
    /\ (op = "divide_and_remainder" /\ Value(arg) # 0
           /\ Abs(Value(old)) < Abs(Value(arg))) =>
          /\ st = "ok"
          /\ frame.rounds = 0
          /\ frame.first = [val |-> <<0>>, pos |-> TRUE]
          /\ frame.second = old
    /\ (op = "divide_and_remainder" /\ Value(arg) # 0
           /\ Abs(Value(old)) >= Abs(Value(arg))) =>
          /\ st = "ok"
          /\ frame.rounds = Len(old.val)
          /\ divide_and_remainder(old, arg) =
                Ok([first |-> frame.first, second |-> frame.second])

\* -105 by -12: the last round has brought down 105 = 8 * 12 + 9 and found
\* the digit 8.
C19_Witness ==
    /\ op = "divide_round"
    /\ Value(old) = -105 /\ Value(arg) = -12
    /\ Value(frame.brought) = 105
    /\ frame.digit = 8
    /\ Value(frame.current_remainder) = 9

\* C17: for every pair of canonical operands a += b and a -= b terminate: the
\* chain of calls between operator+= and operator-= delegates a bounded number
\* of times and ends in the digit-wise arithmetic, so the call returns.
C17_AddSubTerminate ==
    (/\ op \in {"plus_assign", "minus_assign"}
     /\ CanonicalDigits(old.val) /\ CanonicalDigits(arg.val)
     /\ (IsZeroDigits(old) => old.pos) /\ (IsZeroDigits(arg) => arg.pos)) =>
        /\ st \notin {"segfault", "hang"}
        /\ st = "ok"

====
